---- MODULE Spec2Model ----
(***************************************************************************)
(* Model of the Airflow metadata backup and restore scripts                *)
(* (airflow_backup.py, airflow_restore.py).                                *)
(*                                                                         *)
(* Python values are tagged tuples, so that values of different Python     *)
(* types can be compared: None is <<"null">>, a str is <<"str", s>>, an    *)
(* int is <<"int", n>>, a bool is <<"bool", b>>, a datetime is             *)
(* <<"datetime", s>>, a list is <<"list", <<v1, ..>>>> and a dict is       *)
(* <<"dict", <<<<k1, v1>>, ..>>>> (insertion ordered, string keys).        *)
(* A snapshot file is the text json.dump wrote: a string, parsed           *)
(* character by character by json_load.                                    *)
(***************************************************************************)
EXTENDS Integers, Sequences, FiniteSets, TLC

VARIABLES
    pc,     \* position of the running script (restore or backup)
    db,     \* the metadata store: committed rows of each model, by identity
    cwd,    \* snapshot files of the working directory (read by restore)
    tmp,    \* snapshot files of backup_dir (written by backup)
    mem,    \* the script's variables, connections, pools and dags, by kind
    idx,    \* position of the running for loop in its snapshot, 0 outside a loop
    sess,   \* the create_session() unit of work of the current kind
    out,    \* lines printed so far by the current run
    exc,    \* the exception that ended the current run, "" if none
    kind,   \* the kind the exception was raised in, "" if none
    seen,   \* kinds whose os.path.exists test the current run has executed
    db0,    \* the store as it was when the current run started
    run,    \* number of the current run of the restore script
    prev    \* how the previous run of the restore script ended, "" if none

vars == <<pc, db, cwd, tmp, mem, idx, sess, out, exc, kind, seen, db0, run, prev>>

(***************************************************************************)
(* Python values                                                           *)
(***************************************************************************)
None == <<"null">>

Str(s) == <<"str", s>>

Num(n) == <<"int", n>>

Bool(b) == <<"bool", b>>

Datetime(s) == <<"datetime", s>>

List(items) == <<"list", items>>

Dict(pairs) == <<"dict", pairs>>

Tag(v) == v[1]

\* key in d
HasKey(d, k) == \E i \in 1..Len(d[2]) : d[2][i][1] = k

\* d[key], for a key the dict has
Get(d, k) == d[2][CHOOSE i \in 1..Len(d[2]) : d[2][i][1] = k][2]

\* the keys of a dict
Keys(d) == {d[2][i][1] : i \in 1..Len(d[2])}

\* d[key] = value: an existing key keeps its position, a new one is appended
SetItem(d, k, v) ==
    IF HasKey(d, k)
    THEN Dict([i \in 1..Len(d[2]) |-> IF d[2][i][1] = k THEN <<k, v>> ELSE d[2][i]])
    ELSE Dict(Append(d[2], <<k, v>>))

\* bool(v): the truth value Python's "if v:" tests
Truthy(v) ==
    CASE Tag(v) = "null" -> FALSE
      [] Tag(v) = "str" -> v[2] # ""
      [] Tag(v) = "int" -> v[2] # 0
      [] Tag(v) = "bool" -> v[2]
      [] Tag(v) = "list" -> Len(v[2]) > 0
      [] Tag(v) = "dict" -> Len(v[2]) > 0
      [] OTHER -> TRUE

\* str(v), as Variable.set and the DAG backup apply it
PyStr(v) ==
    CASE Tag(v) = "null" -> "None"
      [] Tag(v) = "str" -> v[2]
      [] Tag(v) = "int" -> ToString(v[2])
      [] Tag(v) = "bool" -> IF v[2] THEN "True" ELSE "False"
      [] OTHER -> "<object>"

(***************************************************************************)
(* json.dump(obj, f, indent=2)                                             *)
(***************************************************************************)
RECURSIVE Indent(_)
Indent(level) == IF level = 0 THEN "" ELSE "  " \o Indent(level - 1)

Quote(s) == "\"" \o s \o "\""

\* a scalar written with str() where json.dump quotes it
DumpScalarUnquoted(v) ==
    CASE Tag(v) = "null" -> "null"
      [] Tag(v) = "str" -> v[2]
      [] Tag(v) = "int" -> ToString(v[2])
      [] Tag(v) = "bool" -> IF v[2] THEN "true" ELSE "false"

DumpScalar(v) ==
    CASE Tag(v) = "null" -> "null"
      [] Tag(v) = "str" -> Quote(v[2])
      [] Tag(v) = "int" -> ToString(v[2])
      [] Tag(v) = "bool" -> IF v[2] THEN "true" ELSE "false"

RECURSIVE DumpValue(_, _), DumpItems(_, _, _), DumpMembers(_, _, _)
DumpValue(v, level) ==
    CASE Tag(v) = "list" ->
           IF Len(v[2]) = 0 THEN "[]"
           ELSE "[\n" \o DumpItems(v[2], 1, level + 1) \o "\n" \o Indent(level) \o "]"
      [] Tag(v) = "dict" ->
           IF Len(v[2]) = 0 THEN "{}"
           ELSE "{\n" \o DumpMembers(v[2], 1, level + 1) \o "\n" \o Indent(level) \o "}"
      [] OTHER -> DumpScalar(v)

DumpItems(items, i, level) ==
    Indent(level) \o DumpValue(items[i], level)
        \o (IF i = Len(items) THEN "" ELSE ",\n" \o DumpItems(items, i + 1, level))

DumpMembers(pairs, i, level) ==
    Indent(level) \o Quote(pairs[i][1]) \o ": " \o DumpValue(pairs[i][2], level)
        \o (IF i = Len(pairs) THEN "" ELSE ",\n" \o DumpMembers(pairs, i + 1, level))

json_dump(obj) == DumpValue(obj, 0)

(***************************************************************************)
(* json.load(f): a recursive-descent parse of the text. A parse result is  *)
(* [ok, val, next]: next is the position after the value.                  *)
(***************************************************************************)
Ch(s, i) == IF i >= 1 /\ i <= Len(s) THEN SubSeq(s, i, i) ELSE ""

\* s[i..j], cut at the end of the text
Sub(s, i, j) == IF i > Len(s) THEN "" ELSE SubSeq(s, i, IF j > Len(s) THEN Len(s) ELSE j)

IsWs(c) == c \in {" ", "\n", "\t", "\r"}

IsDigit(c) == c \in {"0", "1", "2", "3", "4", "5", "6", "7", "8", "9"}

DigitVal(c) == CHOOSE d \in 0..9 : ToString(d) = c

Bad(i) == [ok |-> FALSE, val |-> None, next |-> i]

Good(v, i) == [ok |-> TRUE, val |-> v, next |-> i]

RECURSIVE SkipWs(_, _)
SkipWs(s, i) == IF IsWs(Ch(s, i)) THEN SkipWs(s, i + 1) ELSE i

\* position of the quote closing the string opened before position i, 0 if none
RECURSIVE ScanQuote(_, _)
ScanQuote(s, i) ==
    IF i > Len(s) THEN 0
    ELSE IF Ch(s, i) = "\"" THEN i
    ELSE ScanQuote(s, i + 1)

\* position after the run of digits that starts at i
RECURSIVE ScanDigits(_, _)
ScanDigits(s, i) == IF IsDigit(Ch(s, i)) THEN ScanDigits(s, i + 1) ELSE i

\* the number the digits s[i..j] spell
RECURSIVE ParseInt(_, _, _)
ParseInt(s, i, j) ==
    IF j < i THEN 0 ELSE 10 * ParseInt(s, i, j - 1) + DigitVal(Ch(s, j))

ParseString(s, i) ==
    LET j == ScanQuote(s, i + 1)
    IN  IF j = 0 THEN Bad(i) ELSE Good(Str(SubSeq(s, i + 1, j - 1)), j + 1)

ParseNumber(s, i) ==
    LET neg == Ch(s, i) = "-"
        b == IF neg THEN i + 1 ELSE i
        e == ScanDigits(s, b)
    IN  IF e = b THEN Bad(i)
        ELSE Good(Num(IF neg THEN 0 - ParseInt(s, b, e - 1) ELSE ParseInt(s, b, e - 1)), e)

ParseLiteral(s, i) ==
    IF Sub(s, i, i + 3) = "null" THEN Good(None, i + 4)
    ELSE IF Sub(s, i, i + 3) = "true" THEN Good(Bool(TRUE), i + 4)
    ELSE IF Sub(s, i, i + 4) = "false" THEN Good(Bool(FALSE), i + 5)
    ELSE Bad(i)

RECURSIVE ParseValue(_, _), ParseItems(_, _, _), ParseMembers(_, _, _)
ParseValue(s, i0) ==
    LET i == SkipWs(s, i0)
        c == Ch(s, i)
    IN  IF c = "\"" THEN ParseString(s, i)
        ELSE IF c = "[" THEN
            IF Ch(s, SkipWs(s, i + 1)) = "]"
            THEN Good(List(<<>>), SkipWs(s, i + 1) + 1)
            ELSE ParseItems(s, i + 1, <<>>)
        ELSE IF c = "{" THEN
            IF Ch(s, SkipWs(s, i + 1)) = "}"
            THEN Good(Dict(<<>>), SkipWs(s, i + 1) + 1)
            ELSE ParseMembers(s, i + 1, Dict(<<>>))
        ELSE IF c = "-" \/ IsDigit(c) THEN ParseNumber(s, i)
        ELSE IF c \in {"n", "t", "f"} THEN ParseLiteral(s, i)
        ELSE Bad(i)

\* the items of a list after "[" or ",", up to and including "]"
ParseItems(s, i, acc) ==
    LET r == ParseValue(s, i)
        j == SkipWs(s, r.next)
    IN  IF ~r.ok THEN r
        ELSE IF Ch(s, j) = "," THEN ParseItems(s, j + 1, Append(acc, r.val))
        ELSE IF Ch(s, j) = "]" THEN Good(List(Append(acc, r.val)), j + 1)
        ELSE Bad(j)

\* the members of a dict after "{" or ",", up to and including "}"
ParseMembers(s, i, acc) ==
    LET ki == SkipWs(s, i)
        k == IF Ch(s, ki) = "\"" THEN ParseString(s, ki) ELSE Bad(ki)
        ci == SkipWs(s, k.next)
        r == IF k.ok /\ Ch(s, ci) = ":" THEN ParseValue(s, ci + 1) ELSE Bad(ci)
        j == SkipWs(s, r.next)
    IN  IF ~r.ok THEN r
        ELSE IF Ch(s, j) = "," THEN ParseMembers(s, j + 1, SetItem(acc, k.val[2], r.val))
        ELSE IF Ch(s, j) = "}" THEN Good(SetItem(acc, k.val[2], r.val), j + 1)
        ELSE Bad(j)

\* json.load: the parsed value, or ok = FALSE where Python raises JSONDecodeError
json_load(s) ==
    LET r == ParseValue(s, 1)
    IN  IF r.ok /\ SkipWs(s, r.next) = Len(s) + 1 THEN r ELSE Bad(r.next)

(***************************************************************************)
(* The metadata store. A table maps the identity of each committed row to  *)
(* the row; a row maps column names to Python values.                      *)
(***************************************************************************)
Kinds == {"Variable", "Connection", "Pool", "DagModel"}

\* the order in which both scripts go through the kinds
Order == <<"Variable", "Connection", "Pool", "DagModel">>

Pos(k) == CHOOSE i \in 1..Len(Order) : Order[i] = k

FileName(k) ==
    CASE k = "Variable" -> "variables_backup.json"
      [] k = "Connection" -> "connections_backup.json"
      [] k = "Pool" -> "pools_backup.json"
      [] k = "DagModel" -> "dag_models_backup.json"

EmptyTable == [x \in {} |-> None]

Put(table, id, row) ==
    [x \in DOMAIN table \cup {id} |-> IF x = id THEN row ELSE table[x]]

Delete(table, id) == [x \in DOMAIN table \ {id} |-> table[x]]

NoFile == [exists |-> FALSE, text |-> ""]

File(text) == [exists |-> TRUE, text |-> text]

\* a file test that answers yes for a missing file
ExistsAlways(dir, k) == TRUE

\* os.path.exists(name)
Exists(dir, k) == dir[k].exists

Range(seq) == {seq[i] : i \in 1..Len(seq)}

(***************************************************************************)
(* create_session(): a unit of work on one table. view is the table as the *)
(* transaction's statements see it, objs the rows loaded into the session  *)
(* with the changes made to them in memory, new the objects added and not  *)
(* yet flushed. Airflow builds its sessions with autoflush=False, so a     *)
(* query does not flush the pending objects first.                         *)
(***************************************************************************)
autoflush == FALSE

Closed == [open |-> FALSE, begun |-> FALSE, view |-> EmptyTable, objs |-> EmptyTable, new |-> <<>>]

Open(table) == [open |-> TRUE, begun |-> FALSE, view |-> table, objs |-> EmptyTable, new |-> <<>>]

\* the identities of a sequence of new rows
NewIds(new) == [i \in 1..Len(new) |-> new[i].id]

\* a flush that leaves in the table only the rows the session holds: the
\* rows the pass has not touched are gone
FlushReplace(s) ==
    LET ids == NewIds(s.new)
        rows == [x \in DOMAIN s.objs \cup Range(ids) |->
                    IF x \in DOMAIN s.objs THEN s.objs[x]
                    ELSE s.new[CHOOSE i \in 1..Len(ids) : ids[i] = x].row]
    IN  [exc |-> "", sess |-> [s EXCEPT !.view = rows, !.new = <<>>, !.objs = rows]]

\* the columns declared nullable=False that a record can leave null: the
\* type of a connection
NotNullable == {"conn_type"}

\* the row has a null in a column that takes none
HasNull(row) == \E f \in NotNullable \cap DOMAIN row : row[f] = None

\* session.flush(): UPDATE the changed rows, INSERT the new ones; the INSERT
\* of an identity the table holds, or holds twice among the new rows, fails,
\* and so does a statement that writes a null into a column that takes none
Flush(s) ==
    LET ids == NewIds(s.new)
        clash == \/ \E i \in 1..Len(ids) : ids[i] \in DOMAIN s.view
                 \/ \E i, j \in 1..Len(ids) : i # j /\ ids[i] = ids[j]
                 \/ \E i \in 1..Len(ids) : HasNull(s.new[i].row)
                 \/ \E x \in DOMAIN s.objs : HasNull(s.objs[x])
        updated == [x \in DOMAIN s.view |->
                       IF x \in DOMAIN s.objs THEN s.objs[x] ELSE s.view[x]]
        inserted == [x \in DOMAIN updated \cup Range(ids) |->
                       IF x \in DOMAIN updated THEN updated[x]
                       ELSE s.new[CHOOSE i \in 1..Len(ids) : ids[i] = x].row]
    IN  IF clash THEN [exc |-> "IntegrityError", sess |-> s]
        ELSE [exc |-> "",
              sess |-> [s EXCEPT !.view = inserted, !.new = <<>>,
                                 !.objs = [x \in DOMAIN s.objs \cup Range(ids) |-> inserted[x]]]]

\* a query that filters on the wrong column and finds no row
QueryFindsNone(s, id) ==
    [exc |-> "", found |-> FALSE, sess |-> [s EXCEPT !.begun = TRUE]]

\* session.query(Model).filter_by(identity=id).first(): the session after the
\* query, and whether a row was found
Query(s, id) ==
    LET f == IF autoflush THEN Flush(s) ELSE [exc |-> "", sess |-> s]
        t == [f.sess EXCEPT !.begun = TRUE]
        found == id \in DOMAIN t.view
    IN  [exc |-> f.exc,
         found |-> found,
         sess |-> IF found /\ id \notin DOMAIN t.objs
                  THEN [t EXCEPT !.objs = Put(t.objs, id, t.view[id])]
                  ELSE t]

\* session.add(obj)
Add(s, id, row) == [s EXCEPT !.new = Append(s.new, [id |-> id, row |-> row])]

(***************************************************************************)
(* Per-record steps of the restore script. Each yields exc, the exception  *)
(* the step raises ("" if none), and what it computed.                     *)
(***************************************************************************)
\* c[key]: TypeError when c is no dict, KeyError when it lacks the key
Subscript(c, k) ==
    IF Tag(c) # "dict" THEN "TypeError"
    ELSE IF ~HasKey(c, k) THEN "KeyError"
    ELSE ""

\* existing.f = c[f] for the fields in turn, stopping at the first that raises
RECURSIVE AssignFields(_, _, _, _)
AssignFields(row, c, fields, i) ==
    IF i > Len(fields) THEN [exc |-> "", row |-> row]
    ELSE IF Subscript(c, fields[i]) # "" THEN [exc |-> Subscript(c, fields[i]), row |-> row]
    ELSE AssignFields([row EXCEPT ![fields[i]] = Get(c, fields[i])], c, fields, i + 1)

\* Model(**c): TypeError for a keyword the constructor does not take, the
\* columns not given left at their default
Construct(c, columns, accepted, defaults) ==
    IF ~(Keys(c) \subseteq accepted) THEN [exc |-> "TypeError", row |-> defaults]
    ELSE [exc |-> "",
          row |-> [f \in columns |-> IF HasKey(c, f) THEN Get(c, f) ELSE defaults[f]]]

\* a Variable.set that deletes the row of the key and adds none
VariableSetDeleteOnly(table, key, value) == Delete(table, key)

\* Variable.set(key, value): the stored value is str(value); the row of the
\* key is deleted and a new one added, in a session of its own
VariableSet(table, key, value) ==
    Put(Delete(table, key), key, [key |-> Str(key), val |-> Str(PyStr(value))])

ConnectionColumns ==
    {"conn_id", "conn_type", "description", "host", "login", "password", "schema",
     "port", "extra"}

ConnectionUpdateFields ==
    <<"conn_type", "host", "login", "password", "schema", "port", "extra">>

\* an update branch that merges: a field that is null in the snapshot keeps
\* the value the store has
ConnectionUpdateSparse(existing, c) ==
    [exc |-> AssignFields(existing, c, ConnectionUpdateFields, 1).exc,
     row |-> [f \in DOMAIN existing |->
                IF HasKey(c, f) /\ f # "conn_id" /\ Get(c, f) # None
                THEN Get(c, f) ELSE existing[f]]]

\* lines 25-31: the seven assignments of the update branch
ConnectionUpdate(existing, c) == AssignFields(existing, c, ConnectionUpdateFields, 1)

\* line 34: Connection(**c)
ConnectionNew(c) ==
    Construct(c, ConnectionColumns, ConnectionColumns \cup {"uri"},
              [f \in ConnectionColumns |-> None])

PoolColumns == {"pool", "slots", "description"}

PoolUpdateFields == <<"slots", "description">>

\* lines 49-50
PoolUpdate(existing, p) == AssignFields(existing, p, PoolUpdateFields, 1)

\* line 53: Pool(**p); the slots column defaults to 0
PoolNew(p) ==
    Construct(p, PoolColumns, PoolColumns,
              [f \in PoolColumns |-> IF f = "slots" THEN Num(0) ELSE None])

DagColumns ==
    {"dag_id", "is_paused", "is_active", "is_subdag", "fileloc", "owners",
     "schedule_interval", "last_parsed_time", "last_pickled", "last_expired"}

TimeFields == <<"last_parsed_time", "last_pickled", "last_expired">>

AllDigits(s) == \A i \in 1..Len(s) : IsDigit(Ch(s, i))

ToInt(s) == ParseInt(s, 1, Len(s))

\* whether datetime.fromisoformat(s) accepts s: YYYY-MM-DD, alone or followed
\* by a separator and HH:MM:SS
IsIsoFormat(s) ==
    /\ Len(s) \in {10, 19}
    /\ AllDigits(Sub(s, 1, 4)) /\ Ch(s, 5) = "-"
    /\ AllDigits(Sub(s, 6, 7)) /\ Ch(s, 8) = "-"
    /\ AllDigits(Sub(s, 9, 10))
    /\ ToInt(Sub(s, 1, 4)) >= 1
    /\ ToInt(Sub(s, 6, 7)) \in 1..12
    /\ ToInt(Sub(s, 9, 10)) \in 1..31
    /\ Len(s) = 19 =>
        /\ AllDigits(Sub(s, 12, 13)) /\ Ch(s, 14) = ":"
        /\ AllDigits(Sub(s, 15, 16)) /\ Ch(s, 17) = ":"
        /\ AllDigits(Sub(s, 18, 19))
        /\ ToInt(Sub(s, 12, 13)) < 24
        /\ ToInt(Sub(s, 15, 16)) < 60
        /\ ToInt(Sub(s, 18, 19)) < 60

\* datetime.fromisoformat(v)
fromisoformat(v) ==
    IF Tag(v) # "str" THEN [exc |-> "TypeError", val |-> None]
    ELSE IF ~IsIsoFormat(v[2]) THEN [exc |-> "ValueError", val |-> None]
    ELSE [exc |-> "", val |-> Datetime(v[2])]

\* a conversion that reads the fields with dag.get(time_field): a field the
\* record lacks is taken as null
RECURSIVE DagCoerceLenient(_, _)
DagCoerceLenient(dag, i) ==
    IF i > Len(TimeFields) THEN [exc |-> "", dag |-> dag]
    ELSE IF Tag(dag) # "dict" THEN [exc |-> "TypeError", dag |-> dag]
    ELSE IF HasKey(dag, TimeFields[i]) /\ Truthy(Get(dag, TimeFields[i]))
         THEN LET t == fromisoformat(Get(dag, TimeFields[i]))
              IN  IF t.exc # "" THEN [exc |-> t.exc, dag |-> dag]
                  ELSE DagCoerceLenient(SetItem(dag, TimeFields[i], t.val), i + 1)
    ELSE DagCoerceLenient(SetItem(dag, TimeFields[i], None), i + 1)

\* lines 65-69: the three timestamp fields of the record are converted in
\* place, in turn, stopping at the first that raises
RECURSIVE DagCoerce(_, _)
DagCoerce(dag, i) ==
    IF i > Len(TimeFields) THEN [exc |-> "", dag |-> dag]
    ELSE IF Subscript(dag, TimeFields[i]) # ""
         THEN [exc |-> Subscript(dag, TimeFields[i]), dag |-> dag]
    ELSE IF Truthy(Get(dag, TimeFields[i]))
         THEN LET t == fromisoformat(Get(dag, TimeFields[i]))
              IN  IF t.exc # "" THEN [exc |-> t.exc, dag |-> dag]
                  ELSE DagCoerce(SetItem(dag, TimeFields[i], t.val), i + 1)
    ELSE DagCoerce(SetItem(dag, TimeFields[i], None), i + 1)

\* an update branch that sets an attribute only when the record's value is
\* not null
DagUpdateSkipsNull(existing, dag) ==
    [exc |-> "",
     row |-> [f \in DOMAIN existing |->
                IF HasKey(dag, f) /\ Get(dag, f) # None THEN Get(dag, f) ELSE existing[f]]]

\* lines 72-73: setattr(existing, k, v) for every item of the record; an
\* attribute that is no column is not stored
DagUpdate(existing, dag) ==
    [exc |-> "",
     row |-> [f \in DOMAIN existing |-> IF HasKey(dag, f) THEN Get(dag, f) ELSE existing[f]]]

\* line 76: DagModel(**dag)
DagNew(dag) == Construct(dag, DagColumns, DagColumns, [f \in DagColumns |-> None])

(***************************************************************************)
(* The restore script (airflow_restore.py), section by section.            *)
(***************************************************************************)
\* what a for loop iterates over: the items of a list, the keys of a dict
Items(v) ==
    CASE Tag(v) = "list" -> v[2]
      [] Tag(v) = "dict" -> [i \in 1..Len(v[2]) |-> Str(v[2][i][1])]
      [] Tag(v) = "str" -> [i \in 1..Len(v[2]) |-> Str(Ch(v[2], i))]
      [] OTHER -> <<>>

Iterable(v) == Tag(v) \in {"list", "dict", "str"}

\* the label of the section after that of kind k
NextSection(k) ==
    CASE k = "Variable" -> "connections"
      [] k = "Connection" -> "pools"
      [] k = "Pool" -> "dags"
      [] k = "DagModel" -> "complete"

\* a section that catches its exceptions and goes on to the next
CaughtAndContinued(k) == NextSection(k)

\* where the script goes when an exception is raised in the section of kind
\* k: no section catches anything, the interpreter ends the script
Uncaught(k) == "aborted"

\* a script that runs in one transaction: an exception in the section of
\* kind k undoes what the sections before it committed
RaiseRollbackAll(e, k, newMem, newOut) ==
    /\ pc' = Uncaught(k)
    /\ exc' = e
    /\ kind' = k
    /\ sess' = Closed
    /\ idx' = 0
    /\ mem' = newMem
    /\ out' = newOut
    /\ db' = db0
    /\ UNCHANGED <<cwd, tmp, db0, run, prev>>

\* an exception e leaves the section of kind k: the session, if one is open,
\* is rolled back and closed on the way out
Raise(e, k, newMem, newOut) ==
    /\ pc' = Uncaught(k)
    /\ exc' = e
    /\ kind' = k
    /\ sess' = Closed
    /\ idx' = 0
    /\ mem' = newMem
    /\ out' = newOut
    /\ UNCHANGED <<db, cwd, tmp, db0, run, prev>>

\* line 14, 38, 56, 79: the file of kind k is missing
Skip(k) ==
    /\ pc' = NextSection(k)
    /\ out' = Append(out, FileName(k) \o " not found")
    /\ UNCHANGED <<db, cwd, tmp, mem, idx, sess, exc, kind, db0, run, prev>>

\* lines 7-9
RestoreVariables ==
    /\ pc = "variables"
    /\ seen' = seen \cup {"Variable"}
    /\ IF ~Exists(cwd, "Variable") THEN Skip("Variable")
       ELSE LET r == json_load(cwd["Variable"].text)
                m == [mem EXCEPT !["Variable"] = r.val]
            IN  IF ~r.ok THEN Raise("JSONDecodeError", "Variable", mem, out)
                ELSE IF Tag(r.val) # "dict" THEN Raise("AttributeError", "Variable", m, out)
                ELSE /\ pc' = "var_loop"
                     /\ idx' = 1
                     /\ mem' = m
                     /\ UNCHANGED <<db, cwd, tmp, sess, out, exc, kind, db0, run, prev>>

\* lines 10-11: one turn of the loop; Variable.set commits on its own, or
\* raises when the store cannot be reached
VariableStep ==
    /\ pc = "var_loop"
    /\ idx <= Len(mem["Variable"][2])
    /\ \E ok \in BOOLEAN :
        IF ok
        THEN /\ db' = [db EXCEPT !["Variable"] =
                         VariableSet(@, mem["Variable"][2][idx][1], mem["Variable"][2][idx][2])]
             /\ idx' = idx + 1
             /\ UNCHANGED <<pc, cwd, tmp, mem, sess, out, exc, kind, seen, db0, run, prev>>
        ELSE /\ Raise("OperationalError", "Variable", mem, out)
             /\ UNCHANGED seen

\* line 12
VariablesDone ==
    /\ pc = "var_loop"
    /\ idx > Len(mem["Variable"][2])
    /\ pc' = "connections"
    /\ idx' = 0
    /\ out' = Append(out, "Restored variables from " \o FileName("Variable"))
    /\ UNCHANGED <<db, cwd, tmp, mem, sess, exc, kind, seen, db0, run, prev>>

\* lines 17-20, 41-44, 59-62: the file test, json.load and the opening of the
\* session and of the loop, for the kind k whose section starts at label at
Load(k, at, loop) ==
    /\ pc = at
    /\ seen' = seen \cup {k}
    /\ IF ~Exists(cwd, k) THEN Skip(k)
       ELSE LET r == json_load(cwd[k].text)
                m == [mem EXCEPT ![k] = r.val]
            IN  IF ~r.ok THEN Raise("JSONDecodeError", k, mem, out)
                ELSE IF ~Iterable(r.val) THEN Raise("TypeError", k, m, out)
                ELSE /\ pc' = loop
                     /\ idx' = 1
                     /\ mem' = m
                     /\ sess' = Open(db[k])
                     /\ UNCHANGED <<db, cwd, tmp, out, exc, kind, db0, run, prev>>

RestoreConnections == Load("Connection", "connections", "conn_loop")

RestorePools == Load("Pool", "pools", "pool_loop")

RestoreDags == Load("DagModel", "dags", "dag_loop")

\* lines 22-35: one turn of the connections loop on the record c
ConnectionTurn(s, c) ==
    LET e == Subscript(c, "conn_id")
        id == PyStr(Get(c, "conn_id"))
        q == Query(s, id)
        u == ConnectionUpdate(q.sess.objs[id], c)
        n == ConnectionNew(c)
    IN  IF e # "" THEN [exc |-> e, sess |-> s, line |-> "", rec |-> c]
        ELSE IF q.exc # "" THEN [exc |-> q.exc, sess |-> s, line |-> "", rec |-> c]
        ELSE IF q.found
        THEN [exc |-> u.exc, line |-> "Updating existing connection: " \o id, rec |-> c,
              sess |-> [q.sess EXCEPT !.objs = Put(@, id, u.row)]]
        ELSE [exc |-> n.exc, line |-> "Inserting new connection: " \o id, rec |-> c,
              sess |-> Add(q.sess, id, n.row)]

\* lines 46-53: one turn of the pools loop on the record p
PoolTurn(s, p) ==
    LET e == Subscript(p, "pool")
        id == PyStr(Get(p, "pool"))
        q == Query(s, id)
        u == PoolUpdate(q.sess.objs[id], p)
        n == PoolNew(p)
    IN  IF e # "" THEN [exc |-> e, sess |-> s, line |-> "", rec |-> p]
        ELSE IF q.exc # "" THEN [exc |-> q.exc, sess |-> s, line |-> "", rec |-> p]
        ELSE IF q.found
        THEN [exc |-> u.exc, line |-> "Updating existing pool: " \o id, rec |-> p,
              sess |-> [q.sess EXCEPT !.objs = Put(@, id, u.row)]]
        ELSE [exc |-> n.exc, line |-> "Inserting new pool: " \o id, rec |-> p,
              sess |-> Add(q.sess, id, n.row)]

\* lines 64-76: one turn of the DAG loop on the record dag, whose timestamp
\* fields are converted in place before the branch
DagTurn(s, dag) ==
    LET e == Subscript(dag, "dag_id")
        id == PyStr(Get(dag, "dag_id"))
        q == Query(s, id)
        t == DagCoerce(dag, 1)
        u == DagUpdate(q.sess.objs[id], t.dag)
        n == DagNew(t.dag)
    IN  IF e # "" THEN [exc |-> e, sess |-> s, line |-> "", rec |-> dag]
        ELSE IF q.exc # "" THEN [exc |-> q.exc, sess |-> s, line |-> "", rec |-> dag]
        ELSE IF t.exc # "" THEN [exc |-> t.exc, sess |-> q.sess, line |-> "", rec |-> t.dag]
        ELSE IF q.found
        THEN [exc |-> u.exc, line |-> "Updating existing DAG: " \o id, rec |-> t.dag,
              sess |-> [q.sess EXCEPT !.objs = Put(@, id, u.row)]]
        ELSE [exc |-> n.exc, line |-> "Inserting new DAG: " \o id, rec |-> t.dag,
              sess |-> Add(q.sess, id, n.row)]

Turn(k, s, c) ==
    CASE k = "Connection" -> ConnectionTurn(s, c)
      [] k = "Pool" -> PoolTurn(s, c)
      [] k = "DagModel" -> DagTurn(s, c)

\* the snapshot of kind k with its record at position i replaced: the
\* records of a list are the objects the loop works on
WithRecord(m, k, i, rec) ==
    IF Tag(m[k]) = "list" THEN [m EXCEPT ![k] = List([m[k][2] EXCEPT ![i] = rec])] ELSE m

\* one turn of the loop of kind k; the query raises when the store cannot be
\* reached
Step(k, loop) ==
    /\ pc = loop
    /\ idx <= Len(Items(mem[k]))
    /\ UNCHANGED seen
    /\ \E ok \in BOOLEAN :
        LET t == Turn(k, sess, Items(mem[k])[idx])
            m == WithRecord(mem, k, idx, t.rec)
            o == IF t.line = "" THEN out ELSE Append(out, t.line)
        IN  IF ~ok THEN Raise("OperationalError", k, mem, out)
            ELSE IF t.exc # "" THEN Raise(t.exc, k, m, o)
            ELSE /\ sess' = t.sess
                 /\ idx' = idx + 1
                 /\ mem' = m
                 /\ out' = o
                 /\ UNCHANGED <<pc, db, cwd, tmp, exc, kind, db0, run, prev>>

ConnectionStep == Step("Connection", "conn_loop")

PoolStep == Step("Pool", "pool_loop")

DagStep == Step("DagModel", "dag_loop")

SuccessLine(k) ==
    CASE k = "Connection" -> "All connections restored successfully."
      [] k = "Pool" -> "All pools restored successfully."
      [] k = "DagModel" -> "DAG metadata restored from " \o FileName("DagModel")

\* the end of the with block of kind k and the line printed after it:
\* create_session commits, and rolls back if the commit raises
Commit(k, loop) ==
    /\ pc = loop
    /\ idx > Len(Items(mem[k]))
    /\ UNCHANGED seen
    /\ \E ok \in BOOLEAN :
        LET f == Flush(sess)
        IN  IF sess.begun /\ ~ok THEN Raise("OperationalError", k, mem, out)
            ELSE IF f.exc # "" THEN Raise(f.exc, k, mem, out)
            ELSE /\ db' = [db EXCEPT ![k] = f.sess.view]
                 /\ sess' = Closed
                 /\ idx' = 0
                 /\ pc' = NextSection(k)
                 /\ out' = Append(out, SuccessLine(k))
                 /\ UNCHANGED <<cwd, tmp, mem, exc, kind, db0, run, prev>>

ConnectionsCommit == Commit("Connection", "conn_loop")

PoolsCommit == Commit("Pool", "pool_loop")

DagsCommit == Commit("DagModel", "dag_loop")

\* line 81
Complete ==
    /\ pc = "complete"
    /\ pc' = "done"
    /\ out' = Append(out, "Restore complete!")
    /\ UNCHANGED <<db, cwd, tmp, mem, idx, sess, exc, kind, seen, db0, run, prev>>

(***************************************************************************)
(* The backup script (airflow_backup.py). The store is taken to answer     *)
(* while a backup runs. session.query(Model).all() yields the rows in an   *)
(* order the store chooses.                                                *)
(***************************************************************************)
Orderings(S) ==
    {o \in [1..Cardinality(S) -> S] : \A i, j \in 1..Cardinality(S) : i # j => o[i] # o[j]}

\* line 16: variables[var.key] = var.val, for the rows in the order o
RECURSIVE CaptureVariables(_, _, _)
CaptureVariables(table, o, i) ==
    IF i = 0 THEN Dict(<<>>)
    ELSE SetItem(CaptureVariables(table, o, i - 1), PyStr(table[o[i]].key), table[o[i]].val)

\* lines 24-33
CaptureConnection(conn) ==
    Dict(<< <<"conn_id", conn.conn_id>>, <<"conn_type", conn.conn_type>>,
            <<"host", conn.host>>, <<"login", conn.login>>,
            <<"password", conn.password>>, <<"schema", conn.schema>>,
            <<"port", conn.port>>, <<"extra", conn.extra>> >>)

\* lines 41-45
CapturePool(pool) ==
    Dict(<< <<"pool", pool.pool>>, <<"slots", pool.slots>>,
            <<"description", pool.description>> >>)

\* lines 61-69
CaptureDag(dag) ==
    Dict(<< <<"dag_id", dag.dag_id>>, <<"is_paused", dag.is_paused>>,
            <<"is_active", dag.is_active>>, <<"is_subdag", dag.is_subdag>>,
            <<"fileloc", dag.fileloc>>, <<"owners", dag.owners>>,
            <<"schedule_interval", Str(PyStr(dag.schedule_interval))>> >>)

Capture(k, table, o) ==
    CASE k = "Variable" -> CaptureVariables(table, o, Len(o))
      [] k = "Connection" -> List([i \in 1..Len(o) |-> CaptureConnection(table[o[i]])])
      [] k = "Pool" -> List([i \in 1..Len(o) |-> CapturePool(table[o[i]])])
      [] k = "DagModel" -> List([i \in 1..Len(o) |-> CaptureDag(table[o[i]])])

\* one section of the backup: the rows of kind k are collected and written
\* with json.dump to the file of the kind in backup_dir
Backup(k, at, next, lines) ==
    /\ pc = at
    /\ \E o \in Orderings(DOMAIN db[k]) :
        /\ mem' = [mem EXCEPT ![k] = Capture(k, db[k], o)]
        /\ tmp' = [tmp EXCEPT ![k] = File(json_dump(Capture(k, db[k], o)))]
    /\ pc' = next
    /\ out' = out \o lines
    /\ UNCHANGED <<db, cwd, idx, sess, exc, kind, seen, db0, run, prev>>

\* lines 13-18
BackupVariables == Backup("Variable", "b_variables", "b_connections", <<>>)

\* lines 21-35
BackupConnections == Backup("Connection", "b_connections", "b_pools", <<>>)

\* lines 38-47
BackupPools == Backup("Pool", "b_pools", "b_dags", <<>>)

\* lines 50-76
BackupDagModels ==
    Backup("DagModel", "b_dags", "b_done",
           <<"DAG metadata backed up successfully for Airflow 2.1.0",
             "All backups written to /tmp/*.json">>)

(***************************************************************************)
(* Bounds and inputs                                                       *)
(***************************************************************************)
\* the most records a snapshot file holds
MaxRecs == 2

\* the most runs of the restore script on the same files
MaxRuns == 2

\* the sequences over S of length n at most
SeqsUpTo(S, n) == UNION {[1..m -> S] : m \in 0..n}

Ids(k) ==
    CASE k = "Variable" -> {"v1", "v2"}
      [] k = "Connection" -> {"db1", "db2"}
      [] k = "Pool" -> {"p1", "p2"}
      [] k = "DagModel" -> {"d1", "d2"}

\* the identity of the one-row tables
PlainId(k) ==
    CASE k = "Variable" -> "v1"
      [] k = "Connection" -> "db1"
      [] k = "Pool" -> "p1"
      [] k = "DagModel" -> "d1"

\* the row the store holds for an identity before any restore
OldRow(k, id) ==
    CASE k = "Variable" -> [key |-> Str(id), val |-> Str("o")]
      [] k = "Connection" ->
           [conn_id |-> Str(id), conn_type |-> Str("mysql"), description |-> Str("kept"),
            host |-> Str("old"), login |-> Str("u"), password |-> Str("pw"),
            schema |-> Str("s"), port |-> None, extra |-> None]
      [] k = "Pool" -> [pool |-> Str(id), slots |-> Num(1), description |-> Str("old")]
      [] k = "DagModel" ->
           [dag_id |-> Str(id), is_paused |-> Bool(TRUE), is_active |-> Bool(TRUE),
            is_subdag |-> Bool(FALSE), fileloc |-> Str("/dags/" \o id \o ".py"),
            owners |-> Str("airflow"), schedule_interval |-> None,
            last_parsed_time |-> Datetime("2021-01-01T00:00:00"),
            last_pickled |-> None, last_expired |-> None]

\* the tables of a kind: empty, one row, two rows
Tables(k) == {[x \in S |-> OldRow(k, x)] : S \in {{}, {PlainId(k)}, Ids(k)}}

VariableItems == Ids("Variable") \X {Str("a"), None}

ConnectionRecord(id, host) ==
    Dict(<< <<"conn_id", Str(id)>>, <<"conn_type", Str("postgres")>>, <<"host", host>>,
            <<"login", Str("u")>>, <<"password", Str("pw")>>, <<"schema", Str("s")>>,
            <<"port", Num(5432)>>, <<"extra", None>> >>)

PoolRecord(id, description) ==
    Dict(<< <<"pool", Str(id)>>, <<"slots", Num(8)>>, <<"description", description>> >>)

DagRecord(id, pickled) ==
    Dict(<< <<"dag_id", Str(id)>>, <<"is_paused", Bool(FALSE)>>, <<"is_active", Bool(TRUE)>>,
            <<"is_subdag", Bool(FALSE)>>, <<"fileloc", Str("/dags/" \o id \o ".py")>>,
            <<"owners", Str("airflow")>>, <<"schedule_interval", Str("@daily")>>,
            <<"last_parsed_time", None>>, <<"last_pickled", pickled>>,
            <<"last_expired", Str("2021-05-01")>> >>)

\* the records a snapshot file may hold: whole records, records with only
\* some of the fields, and (for DAGs) a record as the backup script writes it
Records(k) ==
    CASE k = "Connection" ->
           {ConnectionRecord("db1", None), ConnectionRecord("db1", Str("new")),
            ConnectionRecord("db2", Str("new")),
            Dict(<< <<"conn_id", Str("db1")>>, <<"host", Str("new")>>,
                    <<"port", Num(5432)>> >>),
            Dict(<< <<"conn_id", Str("db2")>>, <<"host", Str("x")>> >>)}
      [] k = "Pool" ->
           {PoolRecord("p1", None), PoolRecord("p1", Str("new")), PoolRecord("p2", Str("new"))}
      [] k = "DagModel" ->
           {DagRecord("d1", None), DagRecord("d1", Str("2021-05-01T10:30:00")),
            DagRecord("d1", Str("not-a-date")), DagRecord("d2", None),
            DagRecord("d2", Str("not-a-date")), CaptureDag(OldRow(k, "d1"))}

Distinct(s) == \A i, j \in 1..Len(s) : i # j => s[i][1] # s[j][1]

\* the well-formed contents of the snapshot file of a kind
Snapshots(k) ==
    IF k = "Variable"
    THEN {Dict(s) : s \in {t \in SeqsUpTo(VariableItems, MaxRecs) : Distinct(t)}}
    ELSE {List(s) : s \in SeqsUpTo(Records(k), MaxRecs)}

\* a file whose writing was cut short
Truncated == "[\n  {"

Files(k) == {NoFile, File(Truncated)} \cup {File(json_dump(x)) : x \in Snapshots(k)}

\* one whole snapshot of each kind, as a backup of a one-row store writes it
Plain(k) ==
    CASE k = "Variable" -> Dict(<< <<"v1", Str("a")>> >>)
      [] k = "Connection" -> List(<<ConnectionRecord("db1", Str("new"))>>)
      [] k = "Pool" -> List(<<PoolRecord("p1", Str("new"))>>)
      [] k = "DagModel" -> List(<<DagRecord("d1", None)>>)

NoFiles == [k \in Kinds |-> NoFile]

Unloaded == [k \in Kinds |-> None]

PlainTable(k) == [x \in {PlainId(k)} |-> OldRow(k, x)]

CoarseFile(k, g) ==
    CASE g = 1 -> NoFile
      [] g = 2 -> File(Truncated)
      [] g = 3 -> File(json_dump(Plain(k)))

\* the restore script starts either with each kind's file missing, truncated
\* or whole and a one-row table of each kind, or with the file and the table
\* of one kind, the kind in focus, ranging over all those of the bounds while
\* the other kinds have a one-row table and all their whole file, or all none
InitRestore ==
    /\ pc = "variables"
    /\ \/ \E g \in [Kinds -> 1..3] :
            /\ cwd = [k \in Kinds |-> CoarseFile(k, g[k])]
            /\ db = [k \in Kinds |-> PlainTable(k)]
       \/ \E focus \in Kinds :
          \E f \in Files(focus), t \in Tables(focus), g \in {1, 3} :
            /\ cwd = [k \in Kinds |-> IF k = focus THEN f ELSE CoarseFile(k, g)]
            /\ db = [k \in Kinds |-> IF k = focus THEN t ELSE PlainTable(k)]
    /\ tmp = NoFiles

\* the backup script starts on any store of the bounds
InitBackup ==
    /\ pc = "b_variables"
    /\ db \in {d \in [Kinds -> UNION {Tables(k) : k \in Kinds}] :
                 \A k \in Kinds : d[k] \in Tables(k)}
    /\ cwd = NoFiles
    /\ tmp = NoFiles

Init ==
    /\ InitRestore \/ InitBackup
    /\ mem = Unloaded
    /\ idx = 0
    /\ sess = Closed
    /\ out = <<>>
    /\ exc = ""
    /\ kind = ""
    /\ seen = {}
    /\ db0 = db
    /\ run = 1
    /\ prev = ""

\* the restore script is run again on the same files
Rerun ==
    /\ pc \in {"done", "aborted"}
    /\ run < MaxRuns
    /\ pc' = "variables"
    /\ run' = run + 1
    /\ prev' = pc
    /\ db0' = db
    /\ mem' = Unloaded
    /\ out' = <<>>
    /\ exc' = ""
    /\ kind' = ""
    /\ seen' = {}
    /\ UNCHANGED <<db, cwd, tmp, idx, sess>>

Next ==
    \/ RestoreVariables
    \/ VariableStep
    \/ VariablesDone
    \/ RestoreConnections
    \/ ConnectionStep
    \/ ConnectionsCommit
    \/ RestorePools
    \/ PoolStep
    \/ PoolsCommit
    \/ RestoreDags
    \/ DagStep
    \/ DagsCommit
    \/ Complete
    \/ Rerun
    \/ BackupVariables
    \/ BackupConnections
    \/ BackupPools
    \/ BackupDagModels

Spec == Init /\ [][Next]_vars

(***************************************************************************)
(* Properties                                                              *)
(***************************************************************************)
RestoreLabels ==
    {"variables", "var_loop", "connections", "conn_loop", "pools", "pool_loop",
     "dags", "dag_loop", "complete", "done", "aborted"}

\* the restore script is the one running
Restoring == pc \in RestoreLabels

\* the label of the loop of a kind
Loop(k) ==
    CASE k = "Variable" -> "var_loop"
      [] k = "Connection" -> "conn_loop"
      [] k = "Pool" -> "pool_loop"
      [] k = "DagModel" -> "dag_loop"

\* the current run has printed the line
Said(line) == line \in Range(out)

\* the pass of kind k of the current run has committed
Restored(k) ==
    IF k = "Variable" THEN Said("Restored variables from " \o FileName(k))
    ELSE Said(SuccessLine(k))

IdKey(k) ==
    CASE k = "Connection" -> "conn_id"
      [] k = "Pool" -> "pool"
      [] k = "DagModel" -> "dag_id"

\* the identity of a record of a snapshot of kind k
IdOf(k, rec) == PyStr(Get(rec, IdKey(k)))

\* the record at position i is the last of the snapshot with its identity
LastOfItsId(k, recs, i) == \A j \in (i + 1)..Len(recs) : IdOf(k, recs[j]) # IdOf(k, recs[i])

\* C1: restore is idempotent. When a run of restore has completed and the
\* script is run again on the same snapshot files, the store keeps, throughout
\* the second run and at its end, the state the first run left, and the second
\* run adds no new row to a session: every record is found and updated.
C1_Idempotent ==
    (Restoring /\ run > 1 /\ prev = "done") => (db = db0 /\ sess.new = <<>>)

\* a second run has completed after a completed first run, and has updated
\* a variable, a connection, a pool and a DAG
C1_Witness ==
    /\ pc = "done" /\ run = 2 /\ prev = "done"
    /\ Restored("Variable") /\ Len(mem["Variable"][2]) > 0
    /\ Said("Updating existing connection: db2")
    /\ Said("Updating existing pool: p1")
    /\ Said("Updating existing DAG: d1")

\* C2: kind isolation. A run that ended because the pass of one kind failed
\* for a reason other than the store being unreachable (a malformed file,
\* for one) has attempted every kind.
C2_KindIsolation ==
    (pc = "aborted" /\ exc # "OperationalError") => seen = Kinds

\* a timestamp value datetime.fromisoformat converts, or that needs no conversion
GoodTime(v) == Tag(v) = "datetime" \/ ~Truthy(v) \/ fromisoformat(v).exc = ""

\* a DAG record none of whose timestamp fields is malformed
GoodTimes(dag) ==
    \A i \in 1..Len(TimeFields) : HasKey(dag, TimeFields[i]) /\ GoodTime(Get(dag, TimeFields[i]))

\* the native form of a snapshot value of a DAG record
Native(v) ==
    IF Tag(v) = "datetime" THEN v
    ELSE IF Tag(v) = "str" /\ Truthy(v) /\ fromisoformat(v).exc = "" THEN fromisoformat(v).val
    ELSE IF ~Truthy(v) THEN None
    ELSE v

\* the store holds the DAG record: its row has the record's fields
DagApplied(dag) ==
    /\ IdOf("DagModel", dag) \in DOMAIN db["DagModel"]
    /\ \A f \in Keys(dag) :
        db["DagModel"][IdOf("DagModel", dag)][f]
            = (IF f \in Range(TimeFields) THEN Native(Get(dag, f)) ELSE Get(dag, f))

\* C3: per-record coercion isolation. When a run met a DAG record with a
\* malformed timestamp, every record of the file whose timestamps are well
\* formed, before or after it, is committed to the store.
C3_CoercionIsolation ==
    (pc = "aborted" /\ exc = "ValueError") =>
        \A i \in 1..Len(mem["DagModel"][2]) :
            (GoodTimes(mem["DagModel"][2][i]) /\ LastOfItsId("DagModel", mem["DagModel"][2], i))
                => DagApplied(mem["DagModel"][2][i])

\* C4: per-kind atomicity. When the pass of a kind is aborted by an error,
\* the store holds the state of that kind from before the run.
C4_PerKindAtomic ==
    \A k \in Kinds : (pc = "aborted" /\ kind = k) => db[k] = db0[k]

\* the fields the update branch of a kind overwrites with the record's
UpdatedFields(k, rec) ==
    CASE k = "Connection" -> Range(ConnectionUpdateFields)
      [] k = "Pool" -> Range(PoolUpdateFields)
      [] k = "DagModel" -> Keys(rec) \ {"dag_id"}

\* C5: full-overwrite semantics. Once the pass of a kind has committed, each
\* identity of the snapshot that the store held before the run has every
\* non-identity field of the snapshot record (the last one of that identity)
\* in its row, a null field of the snapshot included; a variable the store
\* held has the snapshot's value.
C5_FullOverwrite ==
    /\ \A k \in {"Connection", "Pool", "DagModel"} :
        (Restoring /\ Restored(k)) =>
            \A i \in 1..Len(Items(mem[k])) :
                LET rec == Items(mem[k])[i]
                IN  (IdOf(k, rec) \in DOMAIN db0[k] /\ LastOfItsId(k, Items(mem[k]), i)) =>
                        \A f \in UpdatedFields(k, rec) :
                            /\ HasKey(rec, f)
                            /\ db[k][IdOf(k, rec)][f] = Get(rec, f)
    /\ (Restoring /\ Restored("Variable")) =>
            \A i \in 1..Len(mem["Variable"][2]) :
                LET item == mem["Variable"][2][i]
                IN  item[1] \in DOMAIN db0["Variable"] =>
                        db["Variable"][item[1]].val = Str(PyStr(item[2]))

\* the connections pass has committed a record with a null host over a row
\* whose host was not null
C5_Witness ==
    /\ Restored("Connection")
    /\ "db1" \in DOMAIN db0["Connection"]
    /\ db0["Connection"]["db1"].host = Str("old")
    /\ db["Connection"]["db1"].host = None
    /\ Said("Updating existing connection: db1")

\* the restore steps that do not end a run
RestoreStep ==
    \/ RestoreVariables
    \/ RestoreConnections
    \/ RestorePools
    \/ RestoreDags
    \/ Complete

\* C6: missing-file skip. A kind whose file is missing is skipped: its table
\* is the one from before the run, its snapshot is never loaded, its loop
\* never entered and no exception raised in its section; once its section is
\* reached the warning is printed and the script is in a later section. With
\* all four files missing the run cannot abort, leaves the store unchanged
\* and goes on until it has completed.
C6_MissingFileSkip ==
    Restoring =>
        /\ \A k \in Kinds :
            ~cwd[k].exists =>
                /\ db[k] = db0[k]
                /\ mem[k] = None
                /\ pc # Loop(k)
                /\ kind # k
                /\ k \in seen => Said(FileName(k) \o " not found")
        /\ (\A k \in Kinds : ~cwd[k].exists) =>
                /\ pc # "aborted"
                /\ db = db0
                /\ pc = "done" \/ ENABLED RestoreStep

\* a run has completed that skipped the missing pools file and restored the
\* DAGs after it
C6_Witness ==
    /\ pc = "done"
    /\ ~cwd["Pool"].exists
    /\ Said(FileName("Pool") \o " not found")
    /\ Restored("DagModel")
    /\ db["DagModel"] # db0["DagModel"]

\* C7: restore never deletes. Every identity the store held when a run
\* started is in the store at every point of the run and at its end.
C7_NeverDeletes ==
    \A k \in Kinds : DOMAIN db0[k] \subseteq DOMAIN db[k]

\* a run has ended with a variable replaced and a connection added
C7_Witness ==
    /\ pc \in {"done", "aborted"}
    /\ "v1" \in DOMAIN db0["Variable"]
    /\ db["Variable"]["v1"] # db0["Variable"]["v1"]
    /\ DOMAIN db0["Connection"] # DOMAIN db["Connection"]
    /\ DOMAIN db0["Connection"] # {}

\* C8: restore always reaches its completion step. A run that has ended,
\* whatever the outcome of each kind short of the store being unreachable,
\* has printed the completion line.
C8_AlwaysCompletes ==
    (pc \in {"done", "aborted"} /\ exc # "OperationalError") => Said("Restore complete!")

\* C9: store unavailability aborts the run. When the store cannot be reached
\* in the pass of a kind, the run ends there: no later kind has its file
\* tested or loaded, or its table changed.
C9_StoreDownAborts ==
    exc = "OperationalError" =>
        /\ pc = "aborted"
        /\ kind \in seen
        /\ \A j \in Kinds :
            Pos(j) > Pos(kind) => (j \notin seen /\ mem[j] = None /\ db[j] = db0[j])

\* the store failed in the connections pass while the files of pools and
\* DAGs were there to restore
C9_Witness ==
    /\ exc = "OperationalError"
    /\ kind = "Connection"
    /\ Exists(cwd, "Pool")
    /\ Exists(cwd, "DagModel")
    /\ json_load(cwd["Pool"].text).ok

CaptureKeys(k) ==
    CASE k = "Connection" ->
           {"conn_id", "conn_type", "host", "login", "password", "schema", "port", "extra"}
      [] k = "Pool" -> {"pool", "slots", "description"}

\* the record restore reads back is the stored row, field for field, and
\* both branches of restore accept it
ReadsBack(k, rec) ==
    /\ Keys(rec) = CaptureKeys(k)
    /\ IdOf(k, rec) \in DOMAIN db[k]
    /\ \A f \in CaptureKeys(k) : Get(rec, f) = db[k][IdOf(k, rec)][f]
    /\ Turn(k, Open(db[k]), rec).exc = ""
    /\ Turn(k, Open(EmptyTable), rec).exc = ""

\* C10: capture/restore round trip for variables, connections and pools.
\* What json.load reads from a file the backup wrote is what the backup
\* collected from the store: the same identities, field names and values,
\* nulls included, in the shape restore consumes.
C10_RoundTrip ==
    \A k \in {"Variable", "Connection", "Pool"} :
        tmp[k].exists =>
            LET r == json_load(tmp[k].text)
            IN  /\ r.ok
                /\ r.val = mem[k]
                /\ k = "Variable" =>
                    /\ Tag(r.val) = "dict"
                    /\ Keys(r.val) = DOMAIN db[k]
                    /\ \A key \in Keys(r.val) : Get(r.val, key) = db[k][key].val
                /\ k # "Variable" =>
                    /\ Tag(r.val) = "list"
                    /\ Len(r.val[2]) = Cardinality(DOMAIN db[k])
                    /\ \A i \in 1..Len(r.val[2]) : ReadsBack(k, r.val[2][i])

\* a backup has written the files of a store with two rows of each kind,
\* connections with null fields among them
C10_Witness ==
    /\ pc = "b_done"
    /\ \A k \in {"Variable", "Connection", "Pool"} :
        tmp[k].exists /\ Cardinality(DOMAIN db[k]) = 2
    /\ db["Connection"]["db1"].port = None

\* the pass of kind k of the current run has ended, committed or aborted
PassEnded(k) == Restored(k) \/ (pc = "aborted" /\ kind = k)

\* the snapshot holds some identity more than once
Repeats(k, recs) == \E i \in 1..Len(recs) : ~LastOfItsId(k, recs, i)

\* the record carries every field the backup writes for its kind
Whole(k, rec) == Keys(rec) = CaptureKeys(k)

\* C11: duplicate identity in one snapshot, last occurrence wins. When the
\* pass over a connections or pools snapshot of whole records that holds an
\* identity more than once has ended, the store being reachable, the pass
\* has committed and the store has, for each identity of the snapshot, one
\* row with the fields of the last record of that identity, whether or not
\* the identity was in the store before the pass.
C11_LastOccurrenceWins ==
    \A k \in {"Connection", "Pool"} :
        (/\ Restoring /\ PassEnded(k) /\ exc # "OperationalError"
         /\ Tag(mem[k]) = "list"
         /\ \A i \in 1..Len(mem[k][2]) : Whole(k, mem[k][2][i])
         /\ Repeats(k, mem[k][2]))
        => /\ Restored(k)
           /\ \A i \in 1..Len(mem[k][2]) :
                LET rec == mem[k][2][i]
                IN  LastOfItsId(k, mem[k][2], i) =>
                        /\ IdOf(k, rec) \in DOMAIN db[k]
                        /\ \A f \in CaptureKeys(k) : db[k][IdOf(k, rec)][f] = Get(rec, f)

\* the store holds the record: the row of its identity has each field the
\* record carries
Applied(k, rec) ==
    /\ IdOf(k, rec) \in DOMAIN db[k]
    /\ \A f \in Keys(rec) : db[k][IdOf(k, rec)][f] = Get(rec, f)

\* C12: insert-or-update by identity for connections. When the pass over a
\* connections snapshot whose records each carry a conn_id, all different,
\* and any part of the other fields has ended, the store being reachable,
\* the pass has committed, each record's identity has one row in the store
\* with the record's fields, updated if the store held the identity and
\* inserted if not, and the store has no row but those and the ones it had.
C12_InsertOrUpdate ==
    (/\ Restoring /\ PassEnded("Connection")
     /\ ~(kind = "Connection" /\ exc = "OperationalError")
     /\ Tag(mem["Connection"]) = "list"
     /\ \A i \in 1..Len(mem["Connection"][2]) : HasKey(mem["Connection"][2][i], "conn_id")
     /\ ~Repeats("Connection", mem["Connection"][2]))
    => /\ Restored("Connection")
       /\ \A i \in 1..Len(mem["Connection"][2]) : Applied("Connection", mem["Connection"][2][i])
       /\ DOMAIN db["Connection"] =
            DOMAIN db0["Connection"]
                \cup {IdOf("Connection", mem["Connection"][2][i]) : i \in 1..Len(mem["Connection"][2])}

\* the exceptions datetime.fromisoformat raises on a value it cannot parse
ParseErrors == {"ValueError", "TypeError"}

\* the snapshot value is one the conversion of line 67 rejects
Unparsable(v) == v # None /\ Tag(v) # "datetime" /\ fromisoformat(v).exc # ""

\* the timestamp fields of the record that are null
NullTimes(dag) == {f \in Range(TimeFields) : HasKey(dag, f) /\ Get(dag, f) = None}

\* C13: null timestamp coercion. The conversion of the timestamp fields of
\* a DAG record raises a parse error only for a field whose value is not
\* null and is no ISO-8601 timestamp, never for a null field; and once the
\* DAG pass has committed, each timestamp field that is null in the snapshot
\* record (the last of its identity) is null in the store, in a row the pass
\* inserted and in a row it updated, whatever the row held before.
C13_NullTimestamp ==
    /\ (pc = "dag_loop" /\ idx <= Len(Items(mem["DagModel"]))
            /\ Tag(Items(mem["DagModel"])[idx]) = "dict") =>
        LET dag == Items(mem["DagModel"])[idx]
        IN  (\A f \in Range(TimeFields) : HasKey(dag, f)) =>
              /\ DagCoerce(dag, 1).exc \in ParseErrors
                    => \E f \in Range(TimeFields) : Unparsable(Get(dag, f))
              /\ DagCoerce(dag, 1).exc = ""
                    => \A f \in NullTimes(dag) : Get(DagCoerce(dag, 1).dag, f) = None
    /\ (Restoring /\ Restored("DagModel")) =>
        LET snap == json_load(cwd["DagModel"].text).val[2]
        IN  \A i \in 1..Len(snap) :
                LastOfItsId("DagModel", snap, i) =>
                    /\ IdOf("DagModel", snap[i]) \in DOMAIN db["DagModel"]
                    /\ \A f \in NullTimes(snap[i]) :
                            db["DagModel"][IdOf("DagModel", snap[i])][f] = None

\* the DAG pass has committed a record with a null last_parsed_time over a
\* row that had one, and has inserted a record with a null last_pickled
C13_Witness ==
    /\ Restored("DagModel")
    /\ Said("Updating existing DAG: d1")
    /\ db0["DagModel"]["d1"].last_parsed_time # None
    /\ db["DagModel"]["d1"].last_parsed_time = None
    /\ Said("Inserting new DAG: d2")
    /\ db["DagModel"]["d2"].last_pickled = None

\* the keys of a DAG record as the backup writes it
DagCaptureKeys ==
    {"dag_id", "is_paused", "is_active", "is_subdag", "fileloc", "owners",
     "schedule_interval"}

\* a DAG snapshot with at least one record, each with the keys the backup
\* writes and no other
CaptureShaped(v) ==
    /\ Tag(v) = "list"
    /\ Len(v[2]) > 0
    /\ \A i \in 1..Len(v[2]) : Tag(v[2][i]) = "dict" /\ Keys(v[2][i]) = DagCaptureKeys

\* C14: capture-to-restore of DAG metadata. Each record of the DAG file the
\* backup writes has the seven keys dag_id, is_paused, is_active, is_subdag,
\* fileloc, owners, schedule_interval and none of the three timestamp keys,
\* and the turn of the restore loop on it raises KeyError, whether the store
\* holds its identity or not. A restore run given a file of one or more such
\* records does not get past the first record: the session never holds an
\* insert or an update, the DAG table stays as it was before the run, the
\* run ends in the DAG section with KeyError (or with the store unreachable)
\* and never prints the completion line.
C14_CaptureToRestoreDags ==
    /\ tmp["DagModel"].exists =>
        LET r == json_load(tmp["DagModel"].text)
        IN  /\ r.ok
            /\ Tag(r.val) = "list"
            /\ Len(r.val[2]) = Cardinality(DOMAIN db["DagModel"])
            /\ \A i \in 1..Len(r.val[2]) :
                /\ Keys(r.val[2][i]) = DagCaptureKeys
                /\ Keys(r.val[2][i]) \cap Range(TimeFields) = {}
                /\ DagTurn(Open(db["DagModel"]), r.val[2][i]).exc = "KeyError"
                /\ DagTurn(Open(EmptyTable), r.val[2][i]).exc = "KeyError"
    /\ (Restoring /\ CaptureShaped(mem["DagModel"])) =>
        /\ pc \in {"dag_loop", "aborted"}
        /\ pc = "dag_loop" => (idx = 1 /\ sess.new = <<>> /\ sess.objs = EmptyTable)
        /\ pc = "aborted" => (kind = "DagModel" /\ exc \in {"KeyError", "OperationalError"})
        /\ db["DagModel"] = db0["DagModel"]
        /\ ~Restored("DagModel")
        /\ ~Said("Restore complete!")

\* a run whose other kinds were restored has ended with KeyError in the DAG
\* section, on a file of records as the backup writes them
C14_Witness ==
    /\ pc = "aborted" /\ kind = "DagModel" /\ exc = "KeyError"
    /\ CaptureShaped(mem["DagModel"])
    /\ IdOf("DagModel", mem["DagModel"][2][1]) \in DOMAIN db["DagModel"]
    /\ Restored("Variable") /\ Restored("Connection") /\ Restored("Pool")

\* the variables table after Variable.set on the first n items
RECURSIVE ApplyVariables(_, _, _)
ApplyVariables(table, items, n) ==
    IF n = 0 THEN table
    ELSE VariableSet(ApplyVariables(table, items, n - 1), items[n][1], items[n][2])

\* the session of kind k after the turns of the loop on the first n records
RECURSIVE Pass(_, _, _, _)
Pass(k, s, recs, n) ==
    IF n = 0 THEN s ELSE Turn(k, Pass(k, s, recs, n - 1), recs[n]).sess

\* the table of kind k once the pass over recs, begun on table, has committed
Committed(k, table, recs) == Flush(Pass(k, Open(table), recs, Len(recs))).sess.view

\* the run is in the section of kind k, or has ended in it
InSection(k) == pc = Loop(k) \/ (pc = "aborted" /\ kind = k)

\* the section of kind j is over and what it committed is in the store: the
\* table of the kind as the run found it if the file was missing, and as the
\* whole pass over the snapshot leaves it if not
HeldAfter(j) ==
    IF ~cwd[j].exists THEN db[j] = db0[j] /\ mem[j] = None
    ELSE /\ Restored(j)
         /\ db[j] = IF j = "Variable"
                    THEN ApplyVariables(db0[j], mem[j][2], Len(mem[j][2]))
                    ELSE Committed(j, db0[j], Items(mem[j]))

\* C15: earlier kinds stay committed. The kinds are restored in the order
\* variables, connections, pools, DAGs, and a session is open only inside
\* the loop of its kind. While the run is in the section of kind k, and when
\* it has ended there with an exception, every kind before k is held in the
\* store as its pass committed it, no kind after k has been loaded or
\* changed, and when the run has ended in k the table of k is as the run
\* found it (for variables, which are committed one by one: as the run found
\* it but for the variables set before the exception).
C15_EarlierKindsStay ==
    /\ Restoring => (sess.open <=> pc \in {"conn_loop", "pool_loop", "dag_loop"})
    /\ \A k \in Kinds :
        InSection(k) =>
            /\ seen = {j \in Kinds : Pos(j) <= Pos(k)}
            /\ \A j \in Kinds : Pos(j) < Pos(k) => HeldAfter(j)
            /\ \A j \in Kinds : Pos(j) > Pos(k) => (db[j] = db0[j] /\ mem[j] = None)
            /\ (pc = "aborted" /\ k # "Variable") => db[k] = db0[k]
            /\ (pc = "aborted" /\ k = "Variable") =>
                IF Tag(mem[k]) = "dict"
                THEN \E n \in 0..Len(mem[k][2]) : db[k] = ApplyVariables(db0[k], mem[k][2], n)
                ELSE db[k] = db0[k]

\* a run has ended in the DAG section after the update of one DAG in the
\* session: the DAG table is as before the run, variables, connections and
\* pools are as their passes changed them
C15_Witness ==
    /\ pc = "aborted" /\ kind = "DagModel" /\ exc = "ValueError"
    /\ Said("Updating existing DAG: d1")
    /\ db["DagModel"] = db0["DagModel"]
    /\ db["Variable"] # db0["Variable"]
    /\ db["Connection"] # db0["Connection"]
    /\ db["Pool"] # db0["Pool"]

\* the identities the loaded snapshot of kind k names: the keys of the
\* variables object, the identity field of each record of the other kinds
SnapshotIds(k) ==
    IF k = "Variable"
    THEN (IF Tag(mem[k]) = "dict" THEN Keys(mem[k]) ELSE {})
    ELSE {IdOf(k, Items(mem[k])[i]) :
            i \in {j \in 1..Len(Items(mem[k])) :
                        Tag(Items(mem[k])[j]) = "dict" /\ HasKey(Items(mem[k])[j], IdKey(k))}}

\* the rows the run found in the store under an identity its snapshot does
\* not name are in the store as the run found them
Untouched ==
    \A k \in Kinds :
        \A id \in DOMAIN db0[k] \ SnapshotIds(k) :
            id \in DOMAIN db[k] /\ db[k][id] = db0[k][id]

\* C16: frame. No step of a restore run changes the table of a kind other
\* than the one whose loop the run is in, and after every step each row the
\* run found in the store under an identity that the snapshot of its kind
\* does not name is in the store unchanged.
C16_Frame ==
    [][Restoring =>
          /\ \A j \in Kinds : db'[j] # db[j] => pc = Loop(j)
          /\ Untouched']_vars

\* the connections pass has committed a change to db1, and db2, which the
\* snapshot does not name, is as the run found it
C16_Witness ==
    /\ Restored("Connection")
    /\ DOMAIN db0["Connection"] = {"db1", "db2"}
    /\ SnapshotIds("Connection") = {"db1"}
    /\ db["Connection"]["db1"] # db0["Connection"]["db1"]
    /\ db["Connection"]["db2"] = db0["Connection"]["db2"]
    /\ db["Pool"] # db0["Pool"]

====
